---- MODULE Spec2Model ----
(***************************************************************************)
(* Model of checker.py, the Discord invite link checker.                   *)
(*                                                                         *)
(* One pass (run_checker_once) resets the shared state, loads proxies.txt  *)
(* and invites.txt, and maps check_invite over the deduplicated codes on a *)
(* ThreadPoolExecutor of config.threads workers.  The workers share        *)
(* counter, checked_guild_ids and the five append-only log files; the      *)
(* code takes no lock, so every access to shared state is a step of its    *)
(* own and the steps of different workers interleave freely.               *)
(*                                                                         *)
(* Text is a sequence of one-character strings, so that normalize_invite   *)
(* is computed by matching its regular expression, character by character. *)
(***************************************************************************)
EXTENDS Integers, Sequences, FiniteSets

\* ------------------------------------------------------------------ bounds

\* Most worker threads a configuration asks for (config.threads).
MaxThreads == 2
\* Most lines of invites.txt in the exhaustive enumeration of input files.
MaxLines == 3
\* Most cycles the automatic mode is followed for.
MaxCycles == 2

\* ------------------------------------------------------------------ text

\* The absent value (Python's None).
None == <<"None">>

Lower == {"a","b","c","d","e","f","g","h","i","j","k","l","m",
          "n","o","p","q","r","s","t","u","v","w","x","y","z"}
Upper == {"A","B","C","D","E","F","G","H","I","J","K","L","M",
          "N","O","P","Q","R","S","T","U","V","W","X","Y","Z"}
Digit == {"0","1","2","3","4","5","6","7","8","9"}

\* The character class [A-Za-z0-9-] of the invite pattern.
CodeChars == Lower \cup Upper \cup Digit \cup {"-"}

\* The characters for which str.isspace() is true and that have no escape
\* in a string: the vertical tab (U+000B), the file, group, record and
\* unit separators (U+001C to U+001F), the next-line character (U+0085),
\* the no-break space (U+00A0) and the Ogham space mark (U+1680).  Each is
\* written as itself between the quotes.
VerticalTab == ""
FileSeparator == ""
GroupSeparator == ""
RecordSeparator == ""
UnitSeparator == ""
NextLine == ""
NoBreakSpace == " "
OghamSpaceMark == " "

\* The characters str.strip() removes: those for which str.isspace() is
\* true.  Python has sixteen more, U+2000 to U+200A, U+2028, U+2029,
\* U+202F, U+205F and U+3000: a string constant holding one of them is a
\* lexical error of the language, so they are in no string here and in
\* no line of the model.
Whitespace ==
    {" ", "\t", "\n", "\r", "\f", VerticalTab, FileSeparator, GroupSeparator,
     RecordSeparator, UnitSeparator, NextLine, NoBreakSpace, OghamSpaceMark}

\* s[i..j] as a sequence (empty when i > j).
Slice(s, i, j) == [k \in 1..(j - i + 1) |-> s[i + k - 1]]

\* str.strip(): s without its leading and trailing whitespace.
Strip(s) ==
    LET inner == {i \in 1..Len(s) : s[i] \notin Whitespace}
        Min(S) == CHOOSE m \in S : \A k \in S : m <= k
        Max(S) == CHOOSE m \in S : \A k \in S : m >= k
    IN  IF inner = {} THEN <<>> ELSE Slice(s, Min(inner), Max(inner))

\* TRUE when the literal lit occurs in s at position i.
LitAt(s, i, lit) ==
    /\ i + Len(lit) - 1 <= Len(s)
    /\ \A k \in 1..Len(lit) : s[i + k - 1] = lit[k]

\* The positions after an optional group: the group skipped, or one of its
\* alternatives matched at i.
OptAt(s, i, lits) == {i} \cup {i + Len(l) : l \in {m \in lits : LitAt(s, i, m)}}

\* The alternatives of the three optional groups of the pattern of line
\* 71: https?://, www\. and discord(?:app)?\.com/invite/|disco?d\.gg/.
\* The last is disc, an optional o, d: it matches discd.gg/ and
\* discod.gg/ and does not match discord.gg/.
SchemeLits == { <<"h","t","t","p","s",":","/","/">>,
                <<"h","t","t","p",":","/","/">> }
WwwLits == { <<"w","w","w",".">> }
DomainLits ==
    { <<"d","i","s","c","o","r","d",".","c","o","m","/","i","n","v","i","t","e","/">>,
      <<"d","i","s","c","o","r","d","a","p","p",".","c","o","m","/","i","n","v","i","t","e","/">>,
      <<"d","i","s","c","d",".","g","g","/">>,
      <<"d","i","s","c","o","d",".","g","g","/">> }

\* Where group 1 may start when the match starts at i:
\* (?:https?://)?(?:www\.)?(?:discord(?:app)?\.com/invite/|disco?d\.gg/)?
CodeStarts(s, i) ==
    UNION { UNION { OptAt(s, b, DomainLits) : b \in OptAt(s, a, WwwLits) }
            : a \in OptAt(s, i, SchemeLits) }

\* Where group 1 ends when it starts at j: ([A-Za-z0-9-]+)(?:/)?$ takes one
\* or more code characters up to the end of s, or up to one final slash.
CodeEnds(s, j) ==
    { e \in j..Len(s) :
        /\ \A k \in j..e : s[k] \in CodeChars
        /\ \/ e = Len(s)
           \/ e = Len(s) - 1 /\ s[Len(s)] = "/" }

\* The (start, end) pairs of group 1 over the matches starting at i.
GroupsAt(s, i) ==
    UNION { { <<j, e>> : e \in CodeEnds(s, j) } : j \in CodeStarts(s, i) }

\* re.search: the match at the leftmost position that has one.
SearchGroup(s) ==
    LET starts == {i \in 1..Len(s) : GroupsAt(s, i) # {}}
        first  == CHOOSE i \in starts : \A k \in starts : i <= k
        g      == CHOOSE p \in GroupsAt(s, first) : TRUE
    IN  IF starts = {} THEN None ELSE Slice(s, g[1], g[2])

\* normalize_invite: the invite code of a line, or None.
normalize_invite(invite) ==
    LET s == Strip(invite)
    IN  IF s = <<>> THEN None ELSE SearchGroup(s)

\* load_invites with the membership test dropped (used to test the claims).
RECURSIVE load_invites_nodedup(_)
load_invites_nodedup(invites) ==
    IF invites = <<>> THEN <<>>
    ELSE LET rest == load_invites_nodedup(Slice(invites, 1, Len(invites) - 1))
             invite_code == normalize_invite(invites[Len(invites)])
         IN  IF invite_code = None THEN rest ELSE Append(rest, invite_code)

\* load_invites: the loop over the lines of invites.txt, keeping the first
\* occurrence of every code.
RECURSIVE load_invites(_)
load_invites(invites) ==
    IF invites = <<>> THEN <<>>
    ELSE LET deduped_invites == load_invites(Slice(invites, 1, Len(invites) - 1))
             invite_code == normalize_invite(invites[Len(invites)])
         IN  IF invite_code = None THEN deduped_invites
             ELSE IF \E k \in 1..Len(deduped_invites) : deduped_invites[k] = invite_code
                  THEN deduped_invites
                  ELSE Append(deduped_invites, invite_code)

\* load_proxies: the stripped, non-empty lines of proxies.txt appended to
\* the pool unless already in it.
RECURSIVE load_proxies(_, _)
load_proxies(pool, proxies) ==
    IF proxies = <<>> THEN pool
    ELSE LET before == load_proxies(pool, Slice(proxies, 1, Len(proxies) - 1))
             proxie == Strip(proxies[Len(proxies)])
         IN  IF proxie # <<>> /\ ~(\E k \in 1..Len(before) : before[k] = proxie)
             THEN Append(before, proxie)
             ELSE before

\* ------------------------------------------------------------------ inputs

\* The sample lines of invites.txt.
LineAbc    == <<"a","b","c","\n">>
LineAbcUrl == <<"h","t","t","p","s",":","/","/","d","i","s","c","o","r","d",".",
                "g","g","/","a","b","c","/","\n">>
LineX1     == <<" ","x","-","1"," ","\n">>
LineBlank  == <<" ","\n">>
LineJunk   == <<"a","b","c","!","\n">>
LineQ      == <<"d","i","s","c","o","r","d",".","c","o","m","/","i","n","v","i",
                "t","e","/","Q","7">>

\* More lines: a URL with a scheme and www., two words, a URL of another
\* site, and a code followed by two slashes.
LineWww    == <<"h","t","t","p",":","/","/","w","w","w",".","d","i","s","c","o",
                "r","d",".","c","o","m","/","i","n","v","i","t","e","/","Q","7","\n">>
LineWords  == <<"h","i"," ","a","b","c","\n">>
LineOther  == <<"h","t","t","p","s",":","/","/","e",".","c","o","/","x","-","1",
                "/","\n">>
LineSlashes == <<"a","b","c","/","/","\n">>

\* A URL of the discd.gg spelling, a code followed by a form feed, a
\* line of white space with a form feed in it, a code between separator
\* characters, and a line of nothing but such characters, and the same two with the Ogham
\* space mark.
LineDiscd  == <<"d","i","s","c","d",".","g","g","/","Q","7","\n">>
LineFeed   == <<"\f","a","b","c"," ","\f","\n">>
LineFeedBlank == <<" ","\f","\t","\n">>
LineSeparators == <<FileSeparator,NoBreakSpace,"x","-","1",VerticalTab,
                    UnitSeparator,"\n">>
LineSeparatorsBlank == <<GroupSeparator,RecordSeparator,NextLine,VerticalTab,"\n">>
LineOgham  == <<OghamSpaceMark,"a","b","c",OghamSpaceMark,"\n">>
LineOghamBlank == <<" ",OghamSpaceMark,"\n">>

SampleLines == {LineAbc, LineAbcUrl, LineX1, LineBlank, LineJunk, LineQ,
                LineWww, LineWords, LineOther, LineSlashes,
                LineDiscd, LineFeed, LineFeedBlank, LineSeparators,
                LineSeparatorsBlank, LineOgham, LineOghamBlank}

\* Every code a sample line can give.
AllCodes == {normalize_invite(l) : l \in SampleLines} \ {None}

\* The invites.txt files of the concurrent specification: three codes, with
\* a repeated code, a blank line and a line that is no invite among them.
InviteFiles ==
    { <<LineAbc, LineBlank, LineAbcUrl, LineX1, LineJunk, LineQ>> }

\* Every invites.txt of at most MaxLines lines over the lines that give the
\* two codes abc and x-1 or nothing.
ShortLines == {LineOgham, LineAbcUrl, LineX1, LineOghamBlank, LineJunk}
RECURSIVE SeqsUpTo(_, _)
SeqsUpTo(S, n) ==
    IF n = 0 THEN {<<>>}
    ELSE LET shorter == SeqsUpTo(S, n - 1)
         IN  shorter \cup {Append(q, x) : q \in {p \in shorter : Len(p) = n - 1}, x \in S}
AllInviteFiles == SeqsUpTo(ShortLines, MaxLines)

\* The proxies.txt files: two endpoints, one of them repeated.
ProxyA == <<"1",":","8","\n">>
ProxyB == <<"2",":","8","\n">>
ProxyFiles == { <<ProxyA, ProxyB, ProxyA>> }

\* What the invite endpoint answers.  ok = FALSE is a failed lookup (a
\* status other than 200, a network error, a timeout, a body that is no
\* JSON).  Otherwise response.json() returned: json is "dict" for a JSON
\* object, "null" for the JSON value null (Python's None) and "list" for
\* any other JSON value.  For an object: has_type/type the "type" key, guild
\* the "guild" key ("absent", "null" for JSON null, "dict"), has_id/id and
\* has_name its "id" and "name" keys, boosts its
\* "premium_subscription_count" (0 when absent), members and online the
\* approximate counts (0 when absent; members_int = FALSE is a value that
\* is no number), expires "expires_at" ("null" when absent or null).
Answer(has_type, type, guild, has_id, id, has_name, members_int, members, boosts, online, expires) ==
    [ok |-> TRUE, json |-> "dict",
     has_type |-> has_type, type |-> type, guild |-> guild,
     has_id |-> has_id, id |-> id, has_name |-> has_name,
     members_int |-> members_int, members |-> members, boosts |-> boosts,
     online |-> online, expires |-> expires]

Failure == [Answer(FALSE, 0, "absent", FALSE, "", FALSE, TRUE, 0, 0, 0, "null")
              EXCEPT !.ok = FALSE]

\* Status 200 with the body null, and with a body that is a JSON list.
NullBody == [Answer(FALSE, 0, "absent", FALSE, "", FALSE, TRUE, 0, 0, 0, "null")
               EXCEPT !.json = "null"]
ListBody == [Answer(FALSE, 0, "absent", FALSE, "", FALSE, TRUE, 0, 0, 0, "null")
               EXCEPT !.json = "list"]

\* A well-formed answer: a typed invite of guild id with the given counts.
Wf(type, id, members, boosts, online, expires) ==
    Answer(TRUE, type, "dict", TRUE, id, TRUE, TRUE, members, boosts, online, expires)

GuildIds == {"g1", "g2"}

NoResponse == Failure

\* The answers of the concurrent specification: a failed lookup, a body
\* that is null, a body without a guild, a guild without a name, an invite
\* that is no server invite, and server invites of two guilds, one of them
\* expiring.
Answers ==
    { Failure, NullBody,
      Answer(TRUE, 0, "absent", FALSE, "", FALSE, TRUE, 1, 1, 1, "null"),
      Answer(TRUE, 0, "dict", TRUE, "g1", FALSE, TRUE, 1, 1, 1, "null"),
      Wf(1, "g1", 1, 1, 1, "null"),
      Wf(0, "g1", 1, 1, 1, "null"),
      Wf(0, "g1", 2, 1, 1, "ts"),
      Wf(0, "g2", 1, 1, 1, "null") }

\* The thresholds of the concurrent specification.
MinMembers == 1
MaxMembers == 2
MinMembersOnline == 1
MinBoosts == 1

\* Config.load: the fields of config.json the checker reads.  telegram is
\* TRUE when both telegram_bot_token and telegram_chat_id are set;
\* telegram_mentions is "list" for a list of strings (the default is the
\* empty list) and "null" for a JSON null, which data.get returns as None.
Config(min_members, max_members, min_members_online, min_boosts, use_proxies, threads, save_only_permanent_invites, auto_mode, telegram, telegram_mentions) ==
    [min_members |-> min_members, max_members |-> max_members,
     min_members_online |-> min_members_online, min_boosts |-> min_boosts,
     use_proxies |-> use_proxies, threads |-> threads,
     save_only_permanent_invites |-> save_only_permanent_invites,
     auto_mode |-> auto_mode, telegram |-> telegram,
     telegram_mentions |-> telegram_mentions]

\* ------------------------------------------------------------------ state

VARIABLES
    config,             \* the Config loaded at import (line 57)
    invites_txt,        \* invites.txt: a sequence of lines
    proxies_txt,        \* proxies.txt: a sequence of lines
    remote,             \* code -> the answers the endpoint may give for it
    counter,            \* the Counter: hit, bad, failed
    deduped_proxies,    \* the proxy pool
    checked_guild_ids,  \* the guild identifiers seen in this pass
    valid_txt, valid_ids_txt, bad_txt, invalid_txt, failed_txt,
                        \* the lines this process appended to each log
    console,            \* code -> the result lines printed for it, in order
    tallies,            \* the final tallies printed, one per finished pass
    lookups,            \* code -> the GET requests sent for it
    proxied,            \* code -> the proxy of its last GET (None: no proxy)
    calls,              \* code -> the check_invite calls made for it
    notified,           \* code -> the Telegram POST requests sent for it
    handled,            \* the (invite_code, guild_id) of every handle_result call
    mainpc,             \* where main() is
    deduped_invites,    \* the list load_invites returned (line 300)
    submitted,          \* how many of its codes executor.map has submitted
    queue,              \* the executor's work queue
    pc, cur, resp, tmp  \* per worker: position, invite_code, response_data,
                        \* the counter value read by an increment

vars == <<config, invites_txt, proxies_txt, remote, counter, deduped_proxies,
          checked_guild_ids, valid_txt, valid_ids_txt, bad_txt, invalid_txt,
          failed_txt, console, tallies, lookups, proxied, calls, notified,
          handled, mainpc, deduped_invites, submitted, queue, pc, cur, resp,
          tmp>>

inputs  == <<config, invites_txt, proxies_txt, remote>>
files   == <<valid_txt, valid_ids_txt, bad_txt, invalid_txt, failed_txt>>
locals  == <<cur, resp, tmp>>

Workers == 1..MaxThreads

\* An executor that starts a thread for every work item, whatever
\* max_workers (used to test the claims).
PoolUnbounded == Workers

\* The worker threads the executor may start: max_workers = config.threads.
Pool == 1..config.threads

ZeroCounter == [hit |-> 0, bad |-> 0, failed |-> 0]

\* The state when the module has been imported (lines 57-60) and main() is
\* about to run the first pass, for a given configuration and environment.
Boot ==
    /\ counter = ZeroCounter
    /\ deduped_proxies = <<>>
    /\ checked_guild_ids = {}
    /\ valid_txt = <<>> /\ valid_ids_txt = <<>> /\ bad_txt = <<>>
    /\ invalid_txt = <<>> /\ failed_txt = <<>>
    /\ console = [c \in AllCodes |-> <<>>]
    /\ tallies = <<>>
    /\ lookups = [c \in AllCodes |-> 0]
    /\ proxied = [c \in AllCodes |-> None]
    /\ calls = [c \in AllCodes |-> 0]
    /\ notified = [c \in AllCodes |-> 0]
    /\ handled = {}
    /\ mainpc = "start"
    /\ deduped_invites = <<>>
    /\ submitted = 0
    /\ queue = <<>>
    /\ pc = [w \in Workers |-> "idle"]
    /\ cur = [w \in Workers |-> None]
    /\ resp = [w \in Workers |-> NoResponse]
    /\ tmp = [w \in Workers |-> 0]

\* Manual mode, permanent invites only, no proxying, with Telegram
\* credentials; any of Answers to any lookup.
Init ==
    /\ config \in { Config(MinMembers, MaxMembers, MinMembersOnline, MinBoosts,
                           FALSE, t, TRUE, FALSE, TRUE, "list") : t \in 1..MaxThreads }
    /\ invites_txt \in InviteFiles
    /\ proxies_txt \in ProxyFiles
    /\ remote = [c \in AllCodes |-> Answers]
    /\ Boot

\* The answers of the exhaustive enumeration of input files.
AnswersFew ==
    { Failure, NullBody,
      Answer(TRUE, 0, "absent", FALSE, "", FALSE, TRUE, 1, 1, 1, "null"),
      Wf(1, "g1", 1, 1, 1, "null"),
      Wf(0, "g1", 1, 1, 1, "null") }

\* Manual mode with Telegram credentials over every short invites.txt.
InitLoad ==
    /\ config \in { Config(MinMembers, MaxMembers, MinMembersOnline, MinBoosts,
                           FALSE, t, TRUE, FALSE, TRUE, "list") : t \in 1..MaxThreads }
    /\ invites_txt \in AllInviteFiles
    /\ proxies_txt \in ProxyFiles
    /\ remote = [c \in AllCodes |-> AnswersFew]
    /\ Boot

\* The answers of the single-candidate specification: a failure, a body
\* that is null, a body that is a list, a body without a type, a dead
\* invite, a guild that is JSON null, a member count that is no number,
\* and every server invite with counts around the thresholds.
AnswersHandle ==
    { Failure, NullBody, ListBody,
      Answer(FALSE, 0, "dict", TRUE, "g1", TRUE, TRUE, 1, 1, 1, "null"),
      Answer(TRUE, 0, "absent", FALSE, "", FALSE, TRUE, 1, 1, 1, "null"),
      Answer(TRUE, 0, "null", FALSE, "", FALSE, TRUE, 1, 1, 1, "null"),
      Answer(TRUE, 0, "dict", TRUE, "g1", TRUE, FALSE, 0, 1, 1, "null") }
    \cup { Wf(0, "g1", m, b, o, e) :
             m \in 0..3, b \in 0..2, o \in 0..2, e \in {"null", "ts"} }

\* One candidate, one worker thread, one fixed answer, over a grid of
\* thresholds: handle_result on every combination.
InitHandle ==
    /\ config \in { Config(lo, hi, on, bo, FALSE, 1, p, FALSE, tg, "list") :
                    lo \in 1..2, hi \in 1..2, on \in 0..1, bo \in 0..1,
                    p \in BOOLEAN, tg \in BOOLEAN }
    /\ invites_txt = <<LineAbcUrl>>
    /\ proxies_txt \in ProxyFiles
    /\ remote \in { [c \in AllCodes |-> {a}] : a \in AnswersHandle }
    /\ Boot

\* The answers of the automatic mode: each code has one fixed answer.
AnswersAuto ==
    { Failure, NullBody,
      Answer(TRUE, 0, "absent", FALSE, "", FALSE, TRUE, 1, 1, 1, "null"),
      Wf(1, "g1", 1, 1, 1, "null"),
      Wf(0, "g1", 1, 1, 1, "null"),
      Wf(0, "g1", 2, 1, 1, "ts") }

\* Automatic mode with Telegram credentials over a two-code invites.txt,
\* the endpoint answering the same to every lookup of a code.
InitAuto ==
    /\ config \in { Config(MinMembers, MaxMembers, MinMembersOnline, MinBoosts,
                           FALSE, t, TRUE, TRUE, TRUE, "list") : t \in 1..MaxThreads }
    /\ invites_txt = <<LineX1, LineAbc, LineX1>>
    /\ proxies_txt \in ProxyFiles
    /\ remote \in { [c \in AllCodes |-> {IF c = normalize_invite(LineX1) THEN a ELSE b}] :
                    a \in AnswersAuto, b \in AnswersAuto }
    /\ Boot

\* ------------------------------------------------------------------ helpers

Say(code, tag) == console' = [console EXCEPT ![code] = Append(@, tag)]

\* check_invite returns: the worker thread is free for the next work item.
Return(w) ==
    /\ pc' = [pc EXCEPT ![w] = "idle"]
    /\ cur' = [cur EXCEPT ![w] = None]
    /\ resp' = [resp EXCEPT ![w] = NoResponse]
    /\ tmp' = [tmp EXCEPT ![w] = 0]

Goto(w, label) == pc' = [pc EXCEPT ![w] = label]

\* Lines 263-270: what reading the fields of response_data raises.
\* response_data["type"], then response_data["guild"], guild["id"] and
\* guild["name"]; a missing key is a KeyError, indexing a body that is no
\* JSON object or a guild that is JSON null a TypeError.
ParseOutcome(r) ==
    IF r.json # "dict" THEN "TypeError"
    ELSE IF ~r.has_type THEN "KeyError"
    ELSE IF r.guild = "absent" THEN "KeyError"
    ELSE IF r.guild = "null" THEN "TypeError"
    ELSE IF ~r.has_id THEN "KeyError"
    ELSE IF ~r.has_name THEN "KeyError"
    ELSE "ok"

\* Line 272: guild_id in checked_guild_ids.
IsDuplicate(r, seen) == r.id \in seen

\* handle_result with the upper member bound exclusive (used to test the
\* claims).
VerdictExclusive(cfg, r) ==
    IF ~r.members_int THEN "FAILED_CHECKING"
    ELSE IF ~(cfg.min_members <= r.members /\ r.members < cfg.max_members)
    THEN "BAD_MEMBERS"
    ELSE IF r.boosts < cfg.min_boosts THEN "BAD_BOOSTS"
    ELSE IF r.online < cfg.min_members_online THEN "BAD_ONLINE"
    ELSE IF cfg.save_only_permanent_invites /\ r.expires # "null"
    THEN "BAD_PERMANENT"
    ELSE "HIT"

\* handle_result with a member count that is no number taken as 0 (used
\* to test the claims).
VerdictMembersCoerced(cfg, r) ==
    IF ~(cfg.min_members <= r.members /\ r.members <= cfg.max_members)
    THEN "BAD_MEMBERS"
    ELSE IF r.boosts < cfg.min_boosts THEN "BAD_BOOSTS"
    ELSE IF r.online < cfg.min_members_online THEN "BAD_ONLINE"
    ELSE IF cfg.save_only_permanent_invites /\ r.expires # "null"
    THEN "BAD_PERMANENT"
    ELSE "HIT"

\* handle_result, lines 150-192: the line it prints.  Comparing a member
\* count that is no number raises a TypeError, which check_invite reports
\* as a failed check (line 291).
Verdict(cfg, r) ==
    IF ~r.members_int THEN "FAILED_CHECKING"
    ELSE IF ~(cfg.min_members <= r.members /\ r.members <= cfg.max_members)
    THEN "BAD_MEMBERS"
    ELSE IF r.boosts < cfg.min_boosts THEN "BAD_BOOSTS"
    ELSE IF r.online < cfg.min_members_online THEN "BAD_ONLINE"
    ELSE IF cfg.save_only_permanent_invites /\ r.expires # "null"
    THEN "BAD_PERMANENT"
    ELSE "HIT"

\* reset_state that leaves the seen set alone (used to test the claims).
reset_state_keeps_guilds ==
    [counter |-> ZeroCounter, checked_guild_ids |-> checked_guild_ids,
     deduped_proxies |-> <<>>]

\* reset_state: the values it gives the three globals.
reset_state ==
    [counter |-> ZeroCounter, checked_guild_ids |-> {}, deduped_proxies |-> <<>>]

\* ------------------------------------------------------------------ main thread

\* The variables of the main thread.
main == <<mainpc, deduped_invites, submitted>>

\* run_checker_once, lines 298-302: reset_state, load_proxies, load_invites
\* and the executor created.  No worker thread exists while these run: the
\* threads of an earlier pass were joined before its tally was printed.
RunCheckerOnce ==
    /\ mainpc = "start"
    /\ counter' = reset_state.counter
    /\ checked_guild_ids' = reset_state.checked_guild_ids
    /\ deduped_proxies' = load_proxies(reset_state.deduped_proxies, proxies_txt)
    /\ deduped_invites' = load_invites(invites_txt)
    /\ submitted' = 0
    /\ mainpc' = "join"
    /\ UNCHANGED <<inputs, files, console, tallies, lookups, proxied, calls, notified,
                   handled, queue, pc, locals>>

\* executor.map, line 303: the codes are submitted one by one in list
\* order.  A submit puts the work item on the queue and starts a worker
\* thread while fewer than max_workers run, so the workers take and process
\* the first codes while the main thread is still submitting the others.
Submit ==
    /\ mainpc = "join"
    /\ submitted < Len(deduped_invites)
    /\ queue' = Append(queue, deduped_invites[submitted + 1])
    /\ submitted' = submitted + 1
    /\ UNCHANGED <<inputs, counter, deduped_proxies, checked_guild_ids, files,
                   console, tallies, lookups, proxied, calls, notified, handled,
                   mainpc, deduped_invites, pc, locals>>

\* The tally printed without waiting for the workers, as after
\* shutdown(wait=False) (used to test the claims).
PrintTallyNoJoin ==
    /\ mainpc = "join"
    /\ submitted = Len(deduped_invites)
    /\ tallies' = Append(tallies, counter)
    /\ mainpc' = IF config.auto_mode THEN "sleep" ELSE "done"
    /\ UNCHANGED <<inputs, counter, deduped_proxies, checked_guild_ids, files,
                   console, lookups, proxied, calls, notified, handled,
                   deduped_invites, submitted, queue, pc, locals>>

\* The end of the with block (every code was submitted and the executor's
\* shutdown waits for every work item) and the tally printed at lines
\* 305-307.
PrintTally ==
    /\ mainpc = "join"
    /\ submitted = Len(deduped_invites)
    /\ queue = <<>>
    /\ \A w \in Workers : pc[w] = "idle"
    /\ tallies' = Append(tallies, counter)
    /\ mainpc' = IF config.auto_mode THEN "sleep" ELSE "done"
    /\ UNCHANGED <<inputs, counter, deduped_proxies, checked_guild_ids, files,
                   console, lookups, proxied, calls, notified, handled,
                   deduped_invites, submitted, queue, pc, locals>>

\* main, lines 326-333: the sleep ends and the next cycle starts.
NextCycle ==
    /\ mainpc = "sleep"
    /\ Len(tallies) < MaxCycles
    /\ mainpc' = "start"
    /\ UNCHANGED <<inputs, counter, deduped_proxies, checked_guild_ids, files,
                   console, tallies, lookups, proxied, calls, notified, handled,
                   deduped_invites, submitted, queue, pc, locals>>

\* ------------------------------------------------------------------ workers

\* A worker thread takes the next work item: check_invite(invite_code).
\* The executor starts its threads in submit, at most one per submit, so
\* thread w runs only once w codes were submitted.  The threads are
\* interchangeable; which of them takes an item is the scheduler's choice.
TakeWork(w) ==
    /\ pc[w] = "idle"
    /\ w <= submitted
    /\ queue # <<>>
    /\ cur' = [cur EXCEPT ![w] = Head(queue)]
    /\ queue' = Tail(queue)
    /\ calls' = [calls EXCEPT ![Head(queue)] = @ + 1]
    /\ Goto(w, "send_request")
    /\ UNCHANGED <<inputs, counter, deduped_proxies, checked_guild_ids, files,
                   console, tallies, lookups, proxied, notified, handled, main,
                   resp, tmp>>

\* Line 84 with the configuration ignored (used to test the claims).
UsesProxyWheneverLoaded(cfg, pool) == pool # <<>>

\* Line 84: config.use_proxies and deduped_proxies.
UsesProxy(cfg, pool) == cfg.use_proxies /\ pool # <<>>

\* send_request, lines 81-89: the proxy drawn by random.choice and the GET
\* sent.  requests.get then blocks until the answer or the timeout, while
\* the other threads run.
SendRequest(w) ==
    /\ pc[w] = "send_request"
    /\ lookups' = [lookups EXCEPT ![cur[w]] = @ + 1]
    /\ IF UsesProxy(config, deduped_proxies)
       THEN \E k \in 1..Len(deduped_proxies) :
               proxied' = [proxied EXCEPT ![cur[w]] = deduped_proxies[k]]
       ELSE proxied' = [proxied EXCEPT ![cur[w]] = None]
    /\ Goto(w, "get")
    /\ UNCHANGED <<inputs, counter, deduped_proxies, checked_guild_ids, files,
                   console, tallies, calls, notified, handled, main, queue, locals>>

\* send_request, lines 89-94, and check_invite, lines 258-260: requests.get
\* returns.  A failure (an exception, a status other than 200, a body that
\* is no JSON) is printed.  A body that is the JSON value null makes
\* send_request return None without having printed, logged or counted
\* anything, and check_invite returns at line 260.  Any other body is the
\* response_data check_invite goes on with.
GetReturns(w) ==
    /\ pc[w] = "get"
    /\ \E r \in remote[cur[w]] :
         IF ~r.ok
         THEN /\ Say(cur[w], "FAILED_REQUEST")
              /\ Goto(w, "append_failed")
              /\ UNCHANGED locals
         ELSE IF r.json = "null"
         THEN /\ Return(w)
              /\ UNCHANGED console
         ELSE /\ resp' = [resp EXCEPT ![w] = r]
              /\ Goto(w, "check")
              /\ UNCHANGED <<console, cur, tmp>>
    /\ UNCHANGED <<inputs, counter, deduped_proxies, checked_guild_ids, files,
                   tallies, lookups, proxied, calls, notified, handled, main, queue>>

\* check_invite, lines 262-277 and 285-291: the fields are read, the seen
\* set is tested and the invite type compared.
CheckGuild(w) ==
    /\ pc[w] = "check"
    /\ LET r == resp[w]
           outcome == ParseOutcome(r)
       IN  IF outcome = "KeyError"
           THEN Say(cur[w], "DEAD") /\ Goto(w, "append_invalid") /\ UNCHANGED locals
           ELSE IF outcome = "TypeError"
           THEN Say(cur[w], "FAILED_CHECKING") /\ Goto(w, "append_failed")
                /\ UNCHANGED locals
           ELSE IF IsDuplicate(r, checked_guild_ids)
           THEN Say(cur[w], "DUPLICATE") /\ Return(w)
           ELSE IF r.type # 0
           THEN Say(cur[w], "BAD_TYPE") /\ Goto(w, "append_bad") /\ UNCHANGED locals
           ELSE Goto(w, "add") /\ UNCHANGED <<console, locals>>
    /\ UNCHANGED <<inputs, counter, deduped_proxies, checked_guild_ids, files,
                   tallies, lookups, proxied, calls, notified, handled, main, queue>>

\* check_invite, line 283.
AddGuild(w) ==
    /\ pc[w] = "add"
    /\ checked_guild_ids' = checked_guild_ids \cup {resp[w].id}
    /\ Goto(w, "handle_result")
    /\ UNCHANGED <<inputs, counter, deduped_proxies, files, console, tallies,
                   lookups, proxied, calls, notified, handled, main, queue, locals>>

\* handle_result, lines 150-192: the predicates and the line printed.
HandleResult(w) ==
    /\ pc[w] = "handle_result"
    /\ handled' = handled \cup {<<cur[w], resp[w].id>>}
    /\ LET v == Verdict(config, resp[w])
       IN  /\ Say(cur[w], v)
           /\ Goto(w, IF v = "FAILED_CHECKING" THEN "append_failed"
                      ELSE IF v = "HIT" THEN "append_valid"
                      ELSE "append_bad")
    /\ UNCHANGED <<inputs, counter, deduped_proxies, checked_guild_ids, files,
                   tallies, lookups, proxied, calls, notified, main, queue, locals>>

\* The append to bad.txt (lines 157-158, 167-168, 177-178, 184-185, 278-279).
AppendBad(w) ==
    /\ pc[w] = "append_bad"
    /\ bad_txt' = Append(bad_txt, cur[w])
    /\ Goto(w, "load_bad")
    /\ UNCHANGED <<inputs, counter, deduped_proxies, checked_guild_ids,
                   valid_txt, valid_ids_txt, invalid_txt, failed_txt, console,
                   tallies, lookups, proxied, calls, notified, handled, main, queue, locals>>

\* The append to invalid.txt (lines 287-288).
AppendInvalid(w) ==
    /\ pc[w] = "append_invalid"
    /\ invalid_txt' = Append(invalid_txt, cur[w])
    /\ Goto(w, "load_bad")
    /\ UNCHANGED <<inputs, counter, deduped_proxies, checked_guild_ids,
                   valid_txt, valid_ids_txt, bad_txt, failed_txt, console,
                   tallies, lookups, proxied, calls, notified, handled, main, queue, locals>>

\* The append to failed.txt (lines 95-96 and 292-293).
AppendFailed(w) ==
    /\ pc[w] = "append_failed"
    /\ failed_txt' = Append(failed_txt, cur[w])
    /\ Goto(w, "load_failed")
    /\ UNCHANGED <<inputs, counter, deduped_proxies, checked_guild_ids,
                   valid_txt, valid_ids_txt, bad_txt, invalid_txt, console,
                   tallies, lookups, proxied, calls, notified, handled, main, queue, locals>>

\* The append to valid.txt (lines 193-194).
AppendValid(w) ==
    /\ pc[w] = "append_valid"
    /\ valid_txt' = Append(valid_txt, cur[w])
    /\ Goto(w, "append_valid_ids")
    /\ UNCHANGED <<inputs, counter, deduped_proxies, checked_guild_ids,
                   valid_ids_txt, bad_txt, invalid_txt, failed_txt, console,
                   tallies, lookups, proxied, calls, notified, handled, main, queue, locals>>

\* The append to valid_ids.txt (lines 195-196).
AppendValidIds(w) ==
    /\ pc[w] = "append_valid_ids"
    /\ valid_ids_txt' = Append(valid_ids_txt, resp[w].id)
    /\ Goto(w, "load_hit")
    /\ UNCHANGED <<inputs, counter, deduped_proxies, checked_guild_ids,
                   valid_txt, bad_txt, invalid_txt, failed_txt, console,
                   tallies, lookups, proxied, calls, notified, handled, main, queue, locals>>

\* counter.<field> += 1 reads the attribute, adds one and writes it back;
\* no lock makes the two one step.  This is the read.
LoadCounter(w, field) ==
    /\ pc[w] = "load_" \o field
    /\ tmp' = [tmp EXCEPT ![w] = counter[field]]
    /\ Goto(w, "store_" \o field)
    /\ UNCHANGED <<inputs, counter, deduped_proxies, checked_guild_ids, files,
                   console, tallies, lookups, proxied, calls, notified, handled, main, queue,
                   cur, resp>>

\* An increment that adds two (used to test the claims).
IncrementedTwice(n) == n + 2

\* The value counter.<field> += 1 writes back for the value n it read.
Incremented(n) == n + 1

\* The write of counter.bad += 1 (lines 159, 169, 179, 186, 280, 289), after
\* which check_invite returns.
StoreBad(w) ==
    /\ pc[w] = "store_bad"
    /\ counter' = [counter EXCEPT !.bad = Incremented(tmp[w])]
    /\ Return(w)
    /\ UNCHANGED <<inputs, deduped_proxies, checked_guild_ids, files, console,
                   tallies, lookups, proxied, calls, notified, handled, main, queue>>

\* The write of counter.failed += 1 (lines 97, 294), after which
\* check_invite returns.
StoreFailed(w) ==
    /\ pc[w] = "store_failed"
    /\ counter' = [counter EXCEPT !.failed = Incremented(tmp[w])]
    /\ Return(w)
    /\ UNCHANGED <<inputs, deduped_proxies, checked_guild_ids, files, console,
                   tallies, lookups, proxied, calls, notified, handled, main, queue>>

\* The write of counter.hit += 1 (line 197).
StoreHit(w) ==
    /\ pc[w] = "store_hit"
    /\ counter' = [counter EXCEPT !.hit = Incremented(tmp[w])]
    /\ Goto(w, "notify")
    /\ UNCHANGED <<inputs, deduped_proxies, checked_guild_ids, files, console,
                   tallies, lookups, proxied, calls, notified, handled, main, queue, locals>>

LoadBad(w) == LoadCounter(w, "bad")
LoadFailed(w) == LoadCounter(w, "failed")
LoadHit(w) == LoadCounter(w, "hit")

\* send_telegram_notification without the test of line 216 (used to test
\* the claims).
SendTelegramNotificationUnguarded(w) ==
    /\ pc[w] = "notify"
    /\ notified' = [notified EXCEPT ![cur[w]] = @ + 1]
    /\ Goto(w, "post")
    /\ UNCHANGED <<inputs, counter, deduped_proxies, checked_guild_ids, files,
                   console, tallies, lookups, proxied, calls, handled, main, queue,
                   locals>>

\* send_telegram_notification, lines 216-251: nothing without credentials.
\* Iterating telegram_mentions at lines 219-221 is outside the try of line
\* 246: a mentions value that is None raises a TypeError, which leaves
\* handle_result and is caught at line 290 of check_invite.  Otherwise the
\* POST is sent; requests.post then blocks until the answer or the timeout,
\* while the other threads run.
SendTelegramNotification(w) ==
    /\ pc[w] = "notify"
    /\ IF ~config.telegram
       THEN UNCHANGED <<notified, console>> /\ Return(w)
       ELSE IF config.telegram_mentions = "null"
       THEN /\ Say(cur[w], "FAILED_CHECKING")
            /\ Goto(w, "append_failed")
            /\ UNCHANGED <<notified, locals>>
       ELSE /\ notified' = [notified EXCEPT ![cur[w]] = @ + 1]
            /\ Goto(w, "post")
            /\ UNCHANGED <<console, locals>>
    /\ UNCHANGED <<inputs, counter, deduped_proxies, checked_guild_ids, files,
                   tallies, lookups, proxied, calls, handled, main, queue>>

\* send_telegram_notification, lines 247-254: requests.post returns.  A
\* failure (an exception, or an error status raised by raise_for_status)
\* is printed and swallowed; check_invite returns either way.
PostReturns(w) ==
    /\ pc[w] = "post"
    /\ \E delivered \in BOOLEAN :
         IF delivered THEN UNCHANGED console
         ELSE Say(cur[w], "TELEGRAM_FAILED")
    /\ Return(w)
    /\ UNCHANGED <<inputs, counter, deduped_proxies, checked_guild_ids, files,
                   tallies, lookups, proxied, calls, notified, handled, main, queue>>

Next ==
    \/ RunCheckerOnce
    \/ Submit
    \/ PrintTally
    \/ \E w \in Pool : TakeWork(w)
    \/ \E w \in Pool : SendRequest(w)
    \/ \E w \in Pool : GetReturns(w)
    \/ \E w \in Pool : CheckGuild(w)
    \/ \E w \in Pool : AddGuild(w)
    \/ \E w \in Pool : HandleResult(w)
    \/ \E w \in Pool : AppendBad(w)
    \/ \E w \in Pool : AppendInvalid(w)
    \/ \E w \in Pool : AppendFailed(w)
    \/ \E w \in Pool : AppendValid(w)
    \/ \E w \in Pool : AppendValidIds(w)
    \/ \E w \in Pool : LoadBad(w)
    \/ \E w \in Pool : LoadFailed(w)
    \/ \E w \in Pool : LoadHit(w)
    \/ \E w \in Pool : StoreBad(w)
    \/ \E w \in Pool : StoreFailed(w)
    \/ \E w \in Pool : StoreHit(w)
    \/ \E w \in Pool : SendTelegramNotification(w)
    \/ \E w \in Pool : PostReturns(w)

Spec == Init /\ [][Next]_vars

\* The same steps over every short invites.txt.
SpecLoad == InitLoad /\ [][Next]_vars

\* The same steps for a single candidate over the grid of thresholds.
SpecHandle == InitHandle /\ [][Next]_vars

\* Automatic mode: the passes of main's loop.
NextAuto == Next \/ NextCycle

SpecAuto == InitAuto /\ [][NextAuto]_vars

\* The answers of the notification specification: a failed lookup, a body
\* that is null, a body that is a list, a body of guild g1 without a type,
\* a dead invite, a guild that is JSON null, a member count that is no
\* number, an invite that is no server invite, and a server invite of
\* each guild.
AnswersNotify ==
    { Failure, NullBody, ListBody,
      Answer(FALSE, 0, "dict", TRUE, "g1", TRUE, TRUE, 1, 1, 1, "null"),
      Answer(TRUE, 0, "absent", FALSE, "", FALSE, TRUE, 1, 1, 1, "null"),
      Answer(TRUE, 0, "null", FALSE, "", FALSE, TRUE, 1, 1, 1, "null"),
      Answer(TRUE, 0, "dict", TRUE, "g1", TRUE, FALSE, 0, 1, 1, "null"),
      Wf(1, "g1", 1, 1, 1, "null"),
      Wf(0, "g1", 1, 1, 1, "null"),
      Wf(0, "g2", 1, 1, 1, "null") }

\* Manual mode over two candidates, with and without Telegram credentials,
\* telegram_mentions a list or null.
InitNotify ==
    /\ config \in { Config(MinMembers, MaxMembers, MinMembersOnline, MinBoosts,
                           FALSE, t, TRUE, FALSE, tg, mentions) :
                    t \in 1..MaxThreads, tg \in BOOLEAN,
                    mentions \in {"list", "null"} }
    /\ invites_txt = <<LineAbc, LineX1>>
    /\ proxies_txt \in ProxyFiles
    /\ remote = [c \in AllCodes |-> AnswersNotify]
    /\ Boot

SpecNotify == InitNotify /\ [][Next]_vars

\* Manual mode with Telegram credentials on one worker thread over every
\* invites.txt of one sample
\* line: normalize_invite on each of them.
InitNormalize ==
    /\ config = Config(MinMembers, MaxMembers, MinMembersOnline, MinBoosts,
                       FALSE, 1, TRUE, FALSE, TRUE, "list")
    /\ invites_txt \in { <<l>> : l \in SampleLines }
    /\ proxies_txt \in ProxyFiles
    /\ remote = [c \in AllCodes |-> AnswersFew]
    /\ Boot

SpecNormalize == InitNormalize /\ [][Next]_vars

\* A step of worker thread w of the pool.
WorkerStep(w) ==
    /\ w \in Pool
    /\ \/ TakeWork(w) \/ SendRequest(w) \/ GetReturns(w) \/ CheckGuild(w)
       \/ AddGuild(w)
       \/ HandleResult(w) \/ AppendBad(w) \/ AppendInvalid(w)
       \/ AppendFailed(w) \/ AppendValid(w) \/ AppendValidIds(w)
       \/ LoadBad(w) \/ LoadFailed(w) \/ LoadHit(w)
       \/ StoreBad(w) \/ StoreFailed(w) \/ StoreHit(w)
       \/ SendTelegramNotification(w) \/ PostReturns(w)

\* Once a pass has started its threads keep running: the GET (timeout
\* 7.5 s, line 82) and the POST (timeout 10 s, line 250) return, the
\* interpreter schedules every worker thread that can run, and the main
\* thread submits the codes and leaves the with block when the executor
\* has shut down.  Nothing
\* makes the pass start: in manual mode main waits for ENTER (line 312).
Fairness ==
    /\ WF_vars(Submit)
    /\ WF_vars(PrintTally)
    /\ \A w \in Workers : WF_vars(WorkerStep(w))

\* The candidate lists of the fair specification: invites.txt files that
\* give no candidate, one candidate and two candidates.
FairInviteFiles ==
    { <<>>, <<LineBlank>>, <<LineAbc>>, <<LineAbc, LineX1>>,
      <<LineX1, LineBlank, LineAbc>>, <<LineAbc, LineAbcUrl>> }

\* Manual mode with Telegram credentials over every such list.
InitFair ==
    /\ config \in { Config(MinMembers, MaxMembers, MinMembersOnline, MinBoosts,
                           FALSE, t, TRUE, FALSE, TRUE, mentions) :
                    t \in 1..MaxThreads, mentions \in {"list", "null"} }
    /\ invites_txt \in FairInviteFiles
    /\ proxies_txt \in ProxyFiles
    /\ remote = [c \in AllCodes |-> AnswersFew]
    /\ Boot

SpecFair == InitFair /\ [][Next]_vars /\ Fairness

\* The proxies.txt files of the proxy specification: an empty file, a
\* file of blank lines, and files with a repeated endpoint, written with
\* surrounding spaces in one, between a vertical tab, a form feed and a
\* file separator in another, and followed by an Ogham space mark in a
\* third.
ProxyASpaced == <<" ","1",":","8"," ","\n">>
ProxyAFeed == <<VerticalTab,"1",":","8","\f",FileSeparator,"\n">>
ProxyAOgham == <<"1",":","8",OghamSpaceMark,"\n">>
AllProxyFiles ==
    { <<>>, <<LineBlank, LineFeedBlank, LineOghamBlank>>,
      <<ProxyB, LineBlank, ProxyASpaced, ProxyA>>,
      <<ProxyAFeed, ProxyB, LineFeedBlank, ProxyAOgham, ProxyA>> }

\* The answers of the proxy specification to the second code: a failed
\* lookup, a body that is null, a dead invite and an invite that is no
\* server invite.  The first code is a server invite.
AnswersProxy ==
    { Failure, NullBody,
      Answer(TRUE, 0, "absent", FALSE, "", FALSE, TRUE, 1, 1, 1, "null"),
      Wf(1, "g1", 1, 1, 1, "null") }

\* Automatic mode with Telegram credentials over two candidates, proxying
\* enabled or not, over every such proxies.txt, the endpoint giving each
\* code one fixed answer.
InitProxy ==
    /\ config \in { Config(MinMembers, MaxMembers, MinMembersOnline, MinBoosts,
                           u, t, TRUE, TRUE, TRUE, "list") :
                    u \in BOOLEAN, t \in 1..MaxThreads }
    /\ invites_txt = <<LineAbc, LineX1>>
    /\ proxies_txt \in AllProxyFiles
    /\ remote \in { [c \in AllCodes |-> IF c = normalize_invite(LineAbc)
                                        THEN {Wf(0, "g1", 1, 1, 1, "null")}
                                        ELSE {a}] : a \in AnswersProxy }
    /\ Boot

SpecProxy == InitProxy /\ [][NextAuto]_vars

\* ------------------------------------------------------------------ claims

Last(q) == q[Len(q)]
Occurrences(q, x) == Cardinality({i \in 1..Len(q) : q[i] = x})
CounterFields == {"hit", "bad", "failed"}

\* Worker thread w takes the step.
Steps(w) == pc'[w] # pc[w]

\* The response worker w holds has the keys check_invite reads.
Parsed(w) ==
    /\ resp[w].ok /\ resp[w].json = "dict"
    /\ resp[w].has_type /\ resp[w].guild = "dict"
    /\ resp[w].has_id /\ resp[w].has_name

\* C1: for every guild identifier, at most one candidate of a pass passes
\* the duplicate check and is classified by handle_result, whatever the
\* interleaving of the workers.
C1_OneClassificationPerGuild ==
    \A g \in GuildIds : Cardinality({h \in handled : h[2] = g}) <= 1

\* C2: when the pass has joined its workers, hit is the number of lines
\* appended to valid.txt, bad the number appended to bad.txt and
\* invalid.txt, failed the number appended to failed.txt.
C2_CountersMatchLogs ==
    mainpc = "done" =>
        /\ counter.hit = Len(valid_txt)
        /\ counter.bad = Len(bad_txt) + Len(invalid_txt)
        /\ counter.failed = Len(failed_txt)

\* C3: when check_invite returns from a fetched response whose type is
\* not 0 and that it reported as not a server invite, the guild identifier
\* is in checked_guild_ids.
C3_BadTypeRecorded ==
    [][\A w \in Workers :
          (pc[w] = "store_bad" /\ pc'[w] = "idle" /\ Parsed(w) /\ resp[w].type # 0)
              => resp[w].id \in checked_guild_ids']_vars

\* The response worker w holds is a JSON object whose guild has an "id".
NamesGuild(w) ==
    /\ resp[w].ok /\ resp[w].json = "dict"
    /\ resp[w].guild = "dict" /\ resp[w].has_id

\* C5: within a pass the seen set only grows, and a fetched response that
\* names a guild whose identifier is in the seen set is reported as a
\* duplicate whatever its other fields (type present or not, name present
\* or not, counts, expiration); that step changes no counter, no log
\* file, no notification and not the seen set.
C5_DuplicateSkipped ==
    [][/\ mainpc = "join" => checked_guild_ids \subseteq checked_guild_ids'
       /\ \A w \in Workers :
            (Steps(w) /\ pc[w] = "check" /\ NamesGuild(w)
                /\ resp[w].id \in checked_guild_ids) =>
               /\ console' = [console EXCEPT ![cur[w]] = Append(@, "DUPLICATE")]
               /\ pc'[w] = "idle"
               /\ UNCHANGED <<counter, files, notified, checked_guild_ids,
                              handled, lookups>>]_vars

\* The answer of the single-candidate specification.
TheAnswer == CHOOSE a \in remote[normalize_invite(LineAbcUrl)] : TRUE

\* The line handle_result reports for answer r under configuration cfg,
\* written from the claim: a hit exactly when every predicate holds,
\* otherwise the reason of the first one that fails, in the order
\* members, boosts, online, permanence.
C4_Expected(cfg, r) ==
    LET members_ok == cfg.min_members <= r.members /\ r.members <= cfg.max_members
        boosts_ok == r.boosts >= cfg.min_boosts
        online_ok == r.online >= cfg.min_members_online
        permanent_ok == cfg.save_only_permanent_invites => r.expires = "null"
    IN  CASE members_ok /\ boosts_ok /\ online_ok /\ permanent_ok -> "HIT"
          [] ~members_ok -> "BAD_MEMBERS"
          [] members_ok /\ ~boosts_ok -> "BAD_BOOSTS"
          [] members_ok /\ boosts_ok /\ ~online_ok -> "BAD_ONLINE"
          [] members_ok /\ boosts_ok /\ online_ok /\ ~permanent_ok -> "BAD_PERMANENT"

\* C4: for a server invite (type 0) of a guild not yet seen, the candidate
\* is a hit exactly when min_members <= members <= max_members, boosts >=
\* min_boosts, members_online >= min_members_online and, with
\* save_only_permanent_invites, expires_at is null.  A hit appends the
\* code to valid.txt and the guild identifier to valid_ids.txt and raises
\* hit by one; anything else appends one line to bad.txt, raises bad by
\* one and reports the first failing predicate.
C4_HandleResult ==
    LET c == normalize_invite(LineAbcUrl)
        r == TheAnswer
    IN  (mainpc = "done" /\ r.ok /\ r.json = "dict"
            /\ r.has_type /\ r.type = 0 /\ r.guild = "dict"
            /\ r.has_id /\ r.has_name /\ r.members_int) =>
           IF C4_Expected(config, r) = "HIT"
           THEN /\ console[c] \in {<<"HIT">>, <<"HIT", "TELEGRAM_FAILED">>}
                /\ valid_txt = <<c>> /\ valid_ids_txt = <<r.id>>
                /\ bad_txt = <<>> /\ invalid_txt = <<>> /\ failed_txt = <<>>
                /\ counter = [hit |-> 1, bad |-> 0, failed |-> 0]
                /\ tallies = <<counter>>
           ELSE /\ console[c] = <<C4_Expected(config, r)>>
                /\ bad_txt = <<c>>
                /\ valid_txt = <<>> /\ valid_ids_txt = <<>>
                /\ invalid_txt = <<>> /\ failed_txt = <<>>
                /\ counter = [hit |-> 0, bad |-> 1, failed |-> 0]
                /\ tallies = <<counter>>

\* A hit with the member count equal to max_members, above min_members.
C4_Witness ==
    /\ mainpc = "done"
    /\ TheAnswer.ok /\ TheAnswer.json = "dict"
    /\ TheAnswer.members_int /\ TheAnswer.guild = "dict"
    /\ config.min_members < config.max_members
    /\ TheAnswer.members = config.max_members
    /\ valid_txt = <<normalize_invite(LineAbcUrl)>>
    /\ valid_ids_txt = <<"g1">>
    /\ counter.hit = 1

\* The response worker w holds is a JSON object that lacks the guild
\* identity: no "guild" key, a guild that is JSON null, or a guild without
\* "id" or without "name".
LacksIdentity(w) ==
    /\ resp[w].ok /\ resp[w].json = "dict"
    /\ \/ resp[w].guild = "absent"
       \/ resp[w].guild = "null"
       \/ resp[w].guild = "dict" /\ (~resp[w].has_id \/ ~resp[w].has_name)

\* C6: a fetched response that lacks the guild identity fields (no guild
\* object, no guild id or no guild name) is reported dead whether or not
\* its guild is in the seen set and whatever its type: its code is
\* appended to invalid.txt and to no other log, bad goes up (by one with
\* one worker thread), hit and failed are not written and the seen set is
\* unchanged.
C6_DeadInvite ==
    [][\A w \in Workers :
          (Steps(w) /\ LacksIdentity(w)) =>
             /\ UNCHANGED <<checked_guild_ids, valid_txt, valid_ids_txt, bad_txt,
                            failed_txt, handled, notified>>
             /\ counter'.hit = counter.hit /\ counter'.failed = counter.failed
             /\ pc[w] \in {"check", "append_invalid", "load_bad", "store_bad"}
             /\ pc[w] = "check" =>
                   /\ console' = [console EXCEPT ![cur[w]] = Append(@, "DEAD")]
                   /\ pc'[w] = "append_invalid"
                   /\ UNCHANGED <<counter, invalid_txt>>
             /\ pc[w] = "append_invalid" =>
                   /\ invalid_txt' = Append(invalid_txt, cur[w])
                   /\ pc'[w] = "load_bad"
                   /\ UNCHANGED counter
             /\ pc[w] = "load_bad" =>
                   /\ tmp'[w] = counter.bad /\ pc'[w] = "store_bad"
                   /\ UNCHANGED <<counter, invalid_txt>>
             /\ pc[w] = "store_bad" =>
                   /\ counter'.bad = tmp[w] + 1
                   /\ config.threads = 1 => counter'.bad = counter.bad + 1
                   /\ pc'[w] = "idle"
                   /\ UNCHANGED invalid_txt]_vars

\* Worker w is reporting a failed lookup.
FailedLookup(w) ==
    /\ pc[w] \in {"append_failed", "load_failed", "store_failed"}
    /\ console[cur[w]] = <<"FAILED_REQUEST">>

\* C7: a code is looked up at most once in a pass: one GET is sent, and
\* when it returns the candidate goes on with the body, or is reported as
\* a failed request, or (a body that is null) is dropped without a word.
\* A failed lookup is reported, appends the code to failed.txt, runs
\* counter.failed += 1 once (the value read plus one is written; with one
\* worker thread failed goes up by one) and returns: no second lookup, no
\* classification, and hit, bad, the seen set and the other four logs are
\* left alone.
C7_FailedLookup ==
    /\ [](\A c \in AllCodes :
            /\ lookups[c] <= 1
            /\ (\E i \in 1..Len(console[c]) : console[c][i] = "FAILED_REQUEST")
                  => console[c] = <<"FAILED_REQUEST">>)
    /\ [][\A w \in Workers :
            /\ (Steps(w) /\ pc[w] = "send_request") =>
                  /\ lookups' = [lookups EXCEPT ![cur[w]] = @ + 1]
                  /\ pc'[w] = "get"
                  /\ UNCHANGED <<console, counter, files, checked_guild_ids,
                                 handled>>
            /\ (Steps(w) /\ pc[w] = "get") =>
                  /\ \/ pc'[w] = "check" /\ resp'[w].ok /\ console' = console
                     \/ pc'[w] = "idle" /\ console' = console
                     \/ /\ pc'[w] = "append_failed"
                        /\ console' = [console EXCEPT
                                          ![cur[w]] = Append(@, "FAILED_REQUEST")]
                  /\ UNCHANGED <<lookups, counter, files, checked_guild_ids,
                                 handled>>
            /\ (Steps(w) /\ FailedLookup(w)) =>
                  /\ UNCHANGED <<checked_guild_ids, valid_txt, valid_ids_txt,
                                 bad_txt, invalid_txt, handled, notified, lookups,
                                 console>>
                  /\ counter'.hit = counter.hit /\ counter'.bad = counter.bad
                  /\ pc[w] = "append_failed" =>
                        /\ failed_txt' = Append(failed_txt, cur[w])
                        /\ pc'[w] = "load_failed"
                        /\ UNCHANGED counter
                  /\ pc[w] = "load_failed" =>
                        /\ tmp'[w] = counter.failed /\ pc'[w] = "store_failed"
                        /\ UNCHANGED <<counter, failed_txt>>
                  /\ pc[w] = "store_failed" =>
                        /\ counter'.failed = tmp[w] + 1
                        /\ config.threads = 1 => counter'.failed = counter.failed + 1
                        /\ pc'[w] = "idle"
                        /\ UNCHANGED failed_txt]_vars

\* A pass ended in which a lookup failed: one request, one line in
\* failed.txt, nothing else for that code.
C7_Witness ==
    /\ mainpc = "done"
    /\ \E c \in AllCodes :
          /\ console[c] = <<"FAILED_REQUEST">>
          /\ lookups[c] = 1
          /\ Occurrences(failed_txt, c) = 1
          /\ counter.failed >= 1
          /\ \A h \in handled : h[1] # c

\* C9: within a pass every step leaves each counter unchanged or raises it
\* by one.
C9_CountersMonotonic ==
    [][mainpc = "join" =>
          \A f \in CounterFields :
             counter'[f] = counter[f] \/ counter'[f] = counter[f] + 1]_vars

\* The code normalize_invite gives for each sample line.
CodeOfLine == [l \in SampleLines |-> normalize_invite(l)]

\* The codes of the lines of an invites.txt.
CodesOf(lines) == {CodeOfLine[lines[i]] : i \in 1..Len(lines)} \ {None}

\* The first line of an invites.txt that gives code c.
FirstLine(lines, c) ==
    CHOOSE i \in 1..Len(lines) :
        /\ CodeOfLine[lines[i]] = c
        /\ \A k \in 1..(i - 1) : CodeOfLine[lines[k]] # c

\* L lists every code of the lines exactly once, in order of first
\* appearance.
FirstAppearanceOrder(L, lines) ==
    /\ {L[i] : i \in 1..Len(L)} = CodesOf(lines)
    /\ \A i, j \in 1..Len(L) : i < j =>
          /\ L[i] # L[j]
          /\ FirstLine(lines, L[i]) < FirstLine(lines, L[j])

\* C10: the list load_invites returns holds the distinct codes of the
\* lines of invites.txt in order of first appearance (lines without a code
\* contribute nothing); its codes are submitted and taken from the queue
\* in that order, and check_invite is called exactly once for each of
\* them in a pass.
C10_DistinctCodesOnce ==
    mainpc \in {"join", "done"} =>
        \E L \in [1..Cardinality(CodesOf(invites_txt)) -> CodesOf(invites_txt)] :
           /\ FirstAppearanceOrder(L, invites_txt)
           /\ deduped_invites = L
           /\ submitted <= Len(L)
           /\ LET k == submitted - Len(queue)
              IN  /\ k >= 0
                  /\ queue = [i \in 1..Len(queue) |-> L[k + i]]
                  /\ \A c \in AllCodes :
                        calls[c] = IF \E i \in 1..k : L[i] = c THEN 1 ELSE 0
                  /\ mainpc = "done" => k = Len(L)

\* A pass over a file whose first code, written between Ogham space marks
\* in the first line, comes back in its last line as a URL, ended with one
\* call for each of the two codes.
C10_Witness ==
    /\ mainpc = "done"
    /\ Len(invites_txt) = MaxLines
    /\ invites_txt[1] = LineOgham
    /\ invites_txt[Len(invites_txt)] = LineAbcUrl
    /\ \E i \in 1..Len(invites_txt) : invites_txt[i] = LineX1
    /\ calls[<<"a","b","c">>] = 1
    /\ calls[<<"x","-","1">>] = 1

\* The sum of a counter over the tallies printed.
RECURSIVE TallySum(_, _)
TallySum(q, f) == IF q = <<>> THEN 0 ELSE q[1][f] + TallySum(Tail(q), f)

\* Every increment of the finished cycles is in the tallies: no update of
\* a counter was lost.
NoIncrementLost ==
    /\ mainpc \in {"sleep", "start"}
    /\ TallySum(tallies, "hit") = Len(valid_txt)
    /\ TallySum(tallies, "bad") = Len(bad_txt) + Len(invalid_txt)
    /\ TallySum(tallies, "failed") = Len(failed_txt)

\* C8 as stated: the cycles of the automatic mode over the same files, the
\* same configuration and the same answers end with the same counters.
\* It is checked on the runs that lost no increment and counted as many
\* candidates in each cycle, where the lost updates of C2 and the double
\* classification of C1 play no part.
C8_IdenticalTallies ==
    NoIncrementLost =>
        \A i, j \in 1..Len(tallies) :
            (tallies[i].hit + tallies[i].bad + tallies[i].failed
               = tallies[j].hit + tallies[j].bad + tallies[j].failed)
                => tallies[i] = tallies[j]

\* C8 amended: each cycle starts from zeroed counters, an empty seen set
\* and a proxy pool that holds the endpoints of proxies.txt once each, so
\* no guild seen in one cycle is in the seen set of the next; and with one
\* worker thread the cycles end with the same counters.
C8_CycleIsolation ==
    /\ [](config.threads = 1 => \A i, j \in 1..Len(tallies) : tallies[i] = tallies[j])
    /\ [][(mainpc = "start" /\ mainpc' = "join") =>
            /\ counter' = [hit |-> 0, bad |-> 0, failed |-> 0]
            /\ checked_guild_ids' = {}
            /\ {deduped_proxies'[i] : i \in 1..Len(deduped_proxies')}
                  = {Strip(proxies_txt[i]) : i \in 1..Len(proxies_txt)} \ {<<>>}
            /\ \A i, j \in 1..Len(deduped_proxies') :
                  i # j => deduped_proxies'[i] # deduped_proxies'[j]]_vars

\* Two cycles on one worker thread, each with a hit and then a duplicate
\* skip of the same guild, ended with the same tally.
C8_Witness ==
    /\ Len(tallies) >= 2
    /\ config.threads = 1
    /\ tallies[1] = tallies[2]
    /\ tallies[2].hit = 1
    /\ \E c, d \in AllCodes :
          /\ console[c] = <<"HIT", "HIT">>
          /\ console[d] = <<"DUPLICATE", "DUPLICATE">>

\* The worker threads that are inside check_invite.
InProgress == {w \in Workers : pc[w] # "idle"}

\* C11: at every moment the candidates in progress (check_invite called
\* and not yet returned) are at most config.threads: each is held by a
\* worker thread of its own, and at most config.threads threads hold one.
C11_BoundedInProgress ==
    /\ Cardinality(InProgress) <= config.threads
    /\ Cardinality({cur[w] : w \in InProgress}) = Cardinality(InProgress)
    /\ \A w \in InProgress : calls[cur[w]] >= 1

\* Two threads are configured, both hold a candidate and a third candidate
\* waits in the queue.
C11_Witness ==
    /\ config.threads = 2
    /\ Cardinality(InProgress) = config.threads
    /\ queue # <<>>

\* The next step of worker w raises an error that is no KeyError: the
\* body is no JSON object (line 263), the guild of its response is JSON
\* null (line 266), its member count is no number (line 151), or
\* telegram_mentions is None (line 219).
Faulty(w) ==
    \/ pc[w] = "check" /\ resp[w].json = "list"
    \/ pc[w] = "check" /\ resp[w].json = "dict" /\ resp[w].has_type
          /\ resp[w].guild = "null"
    \/ pc[w] = "handle_result" /\ ~resp[w].members_int
    \/ pc[w] = "notify" /\ config.telegram /\ config.telegram_mentions = "null"

\* Worker w is reporting a failed check.
FailedCheck(w) ==
    /\ pc[w] \in {"append_failed", "load_failed", "store_failed"}
    /\ console[cur[w]] # <<>>
    /\ Last(console[cur[w]]) = "FAILED_CHECKING"

\* The codes handed to the executor.
Dispatched == {c \in AllCodes : \E i \in 1..Len(invites_txt) :
                                  normalize_invite(invites_txt[i]) = c}

\* C12: an error raised while a fetched response is processed is caught
\* in check_invite: the step reports a failed check and touches neither
\* the other workers, the queue nor the main thread; the code is then
\* appended to failed.txt and counter.failed += 1 is run once (the value
\* read plus one is written; with one worker thread failed goes up by
\* one).  When the pass has ended check_invite was called and has returned
\* for every dispatched candidate and one tally was printed.
C12_ErrorCaught ==
    /\ [](mainpc = "done" =>
            /\ Len(tallies) = 1
            /\ \A c \in Dispatched :
                  /\ calls[c] = 1
                  /\ \A w \in Workers : cur[w] # c
                  /\ (console[c] # <<>> /\ Last(console[c]) = "FAILED_CHECKING")
                        => Occurrences(failed_txt, c) = 1)
    /\ [][\A w \in Workers :
            /\ (Steps(w) /\ Faulty(w)) =>
                  /\ console' = [console EXCEPT ![cur[w]] = Append(@, "FAILED_CHECKING")]
                  /\ pc' = [pc EXCEPT ![w] = "append_failed"]
                  /\ UNCHANGED <<cur, queue, mainpc, tallies, counter, files>>
            /\ (Steps(w) /\ FailedCheck(w)) =>
                  /\ UNCHANGED <<queue, mainpc, tallies, console>>
                  /\ \A v \in Workers \ {w} : pc'[v] = pc[v] /\ cur'[v] = cur[v]
                  /\ pc[w] = "append_failed" =>
                        /\ failed_txt' = Append(failed_txt, cur[w])
                        /\ pc'[w] = "load_failed"
                        /\ UNCHANGED counter
                  /\ pc[w] = "load_failed" =>
                        /\ tmp'[w] = counter.failed /\ pc'[w] = "store_failed"
                        /\ UNCHANGED <<counter, failed_txt>>
                  /\ pc[w] = "store_failed" =>
                        /\ counter' = [counter EXCEPT !.failed = tmp[w] + 1]
                        /\ config.threads = 1 => counter'.failed = counter.failed + 1
                        /\ pc'[w] = "idle"
                        /\ UNCHANGED failed_txt]_vars

\* A pass ended in which the first candidate raised an error in
\* handle_result and the second was still processed to a hit.
C12_Witness ==
    /\ mainpc = "done" /\ Len(tallies) = 1
    /\ console[CodeOfLine[LineAbc]] = <<"FAILED_CHECKING">>
    /\ failed_txt = <<CodeOfLine[LineAbc]>>
    /\ console[CodeOfLine[LineX1]] = <<"HIT">>
    /\ tallies[1] = [hit |-> 1, bad |-> 0, failed |-> 1]

\* C13: a POST to Telegram is made only by a worker whose candidate was
\* just reported a hit and logged in valid.txt, once for that hit; none
\* is made without the bot token or the chat id; and a POST that fails
\* leaves the counters, the five logs, the seen set and the hit line of
\* the candidate as they were.
C13_Notification ==
    /\ [](\A c \in AllCodes :
            /\ notified[c] <= Occurrences(console[c], "HIT")
            /\ notified[c] <= Occurrences(valid_txt, c)
            /\ ~config.telegram => notified[c] = 0)
    /\ [][/\ notified' # notified =>
               \E w \in Workers :
                  /\ pc[w] = "notify" /\ pc'[w] = "post"
                  /\ Last(console[cur[w]]) = "HIT"
                  /\ notified' = [notified EXCEPT ![cur[w]] = @ + 1]
          /\ \A w \in Workers :
                (Steps(w) /\ pc[w] = "post") =>
                   /\ pc'[w] = "idle"
                   /\ notified[cur[w]] >= 1
                   /\ Last(console[cur[w]]) = "HIT"
                   /\ \/ console' = console
                      \/ console' = [console EXCEPT
                                        ![cur[w]] = Append(@, "TELEGRAM_FAILED")]
                   /\ UNCHANGED <<counter, files, checked_guild_ids, handled,
                                  notified>>
          /\ \A c \in AllCodes :
                (console'[c] = Append(console[c], "TELEGRAM_FAILED")) =>
                   \E w \in Workers : cur[w] = c /\ pc[w] = "post"]_vars

\* A pass ended in which the notification of a hit failed: the hit is
\* counted and logged, nothing is logged as failed.
C13_Witness ==
    /\ mainpc = "done" /\ config.telegram
    /\ \E c \in AllCodes :
          /\ console[c] = <<"HIT", "TELEGRAM_FAILED">>
          /\ notified[c] = 1
          /\ Occurrences(valid_txt, c) = 1
          /\ Occurrences(failed_txt, c) = 0
    /\ counter.hit >= 1 /\ counter.failed = 0

\* C19: every candidate appends to the logs of at most one outcome (its
\* code is in at most one line of valid.txt, bad.txt, invalid.txt and
\* failed.txt taken together), and when the pass has ended an outcome was
\* reported for every dispatched candidate.
C19_OneOutcomePerCandidate ==
    /\ \A c \in AllCodes :
          Occurrences(valid_txt, c) + Occurrences(bad_txt, c)
            + Occurrences(invalid_txt, c) + Occurrences(failed_txt, c) <= 1
    /\ mainpc = "done" => \A c \in Dispatched : console[c] # <<>>

\* The lines handle_result prints for a candidate a threshold rejects.
ThresholdRejections == {"BAD_MEMBERS", "BAD_BOOSTS", "BAD_ONLINE", "BAD_PERMANENT"}

\* check_invite was called for code c before it was called for code d:
\* the executor takes the codes in the order of load_invites.
CalledBefore(c, d) ==
    /\ calls[c] >= 1 /\ calls[d] >= 1
    /\ FirstLine(invites_txt, c) < FirstLine(invites_txt, d)

\* C14: when the candidate of a guild that check_invite was called for
\* first is rejected by a threshold, no candidate of that guild processed
\* after it in the pass reaches handle_result and becomes a hit: the guild
\* identifier was inserted before the thresholds were evaluated and stays
\* in the seen set, so the later candidate is skipped as a duplicate.
C14_RejectedGuildStaysSeen ==
    \A h1, h2 \in handled :
        (/\ h1[2] = h2[2]
         /\ CalledBefore(h1[1], h2[1])
         /\ console[h1[1]] # <<>>
         /\ Last(console[h1[1]]) \in ThresholdRejections)
            => ~(\E i \in 1..Len(console[h2[1]]) : console[h2[1]][i] = "HIT")

\* The URL prefixes the claim accepts: discord.com/invite/ or discord.gg/
\* after an optional scheme and an optional www.
AcceptedPrefixes ==
    { sch \o www \o dom :
        sch \in {<<>>} \cup SchemeLits,
        www \in {<<>>} \cup WwwLits,
        dom \in { <<"d","i","s","c","o","r","d",".","c","o","m","/","i","n","v","i","t","e","/">>,
                  <<"d","i","s","c","o","r","d",".","g","g","/">> } }

\* t is a code: one or more letters, digits and hyphens.
IsCode(t) == t # <<>> /\ \A k \in 1..Len(t) : t[k] \in CodeChars

\* What the claim says normalize_invite returns for a line: the code when
\* the stripped line, less one trailing slash, is a bare code or an
\* accepted prefix followed by a code; nothing otherwise.
C15_Expected(line) ==
    LET s == Strip(line)
        body == IF s # <<>> /\ s[Len(s)] = "/" THEN Slice(s, 1, Len(s) - 1) ELSE s
        rest(p) == Slice(body, Len(p) + 1, Len(body))
        shapes == {p \in AcceptedPrefixes \cup {<<>>} :
                      LitAt(body, 1, p) /\ IsCode(rest(p))}
    IN  IF shapes = {} THEN None ELSE rest(CHOOSE p \in shapes : TRUE)

\* C15: for an invites.txt of one line, the codes load_invites returns
\* are the code of the line when the line is a bare code or a
\* discord.com/invite/ or discord.gg/ URL (optional scheme, optional www.,
\* optional trailing slash), and no code for a blank line and for every
\* other line.
C15_NormalizeShapes ==
    [][(mainpc = "start" /\ mainpc' = "join" /\ Len(invites_txt) = 1) =>
          deduped_invites' = IF C15_Expected(invites_txt[1]) = None THEN <<>>
                             ELSE <<C15_Expected(invites_txt[1])>>]_vars

\* C16: the tally is printed only when every code was submitted, the
\* queue is empty and every worker has returned from check_invite, with every dispatched candidate
\* called once more than before the pass; from then until the next pass
\* starts nothing changes a counter, a log file or the seen set, the
\* counters stay those of the tally, and reset_state runs with no worker
\* active.
C16_JoinBeforeTally ==
    /\ [](mainpc # "join" =>
            /\ queue = <<>>
            /\ \A w \in Workers : pc[w] = "idle"
            /\ (tallies # <<>> => counter = Last(tallies))
            /\ \A c \in Dispatched : calls[c] = Len(tallies))
    /\ [][/\ (mainpc = "join" /\ mainpc' # "join") =>
                /\ tallies' = Append(tallies, counter)
                /\ submitted = Len(deduped_invites)
                /\ queue = <<>>
                /\ \A w \in Workers : pc[w] = "idle"
          /\ (mainpc # "join" /\ mainpc' # "join") =>
                UNCHANGED <<counter, files, checked_guild_ids, tallies, console>>
          /\ (mainpc = "start" /\ mainpc' = "join") =>
                /\ \A w \in Workers : pc[w] = "idle" /\ pc'[w] = "idle"
                /\ UNCHANGED files]_vars

\* The second cycle of the automatic mode ended on two worker threads
\* that both counted a candidate, and the main thread sleeps.
C16_Witness ==
    /\ mainpc = "sleep" /\ Len(tallies) = 2 /\ config.threads = 2
    /\ tallies[2].bad + tallies[2].hit + tallies[2].failed = 2
    /\ \A c \in Dispatched : calls[c] = 2

\* Code c waits in the executor's queue or is held by a worker.
Pending(c) ==
    \/ \E i \in 1..Len(queue) : queue[i] = c
    \/ \E w \in Workers : cur[w] = c

\* check_invite returned for code c with an outcome printed: hit (with or
\* without a failed notification), bad, dead, failed or duplicate skip.
Finished(c) ==
    /\ calls[c] >= 1
    /\ \A w \in Workers : cur[w] # c
    /\ \A i \in 1..Len(queue) : queue[i] # c
    /\ console[c] # <<>>

\* A pass that has started eventually ends with its tally printed.
PassEnds == (mainpc = "join") ~> (mainpc = "done" /\ Len(tallies) = 1)

\* C17: under fair scheduling, with lookups and notifications that
\* return, every dispatched candidate eventually reaches one of the
\* outcomes hit, bad, dead, failed or duplicate skip, and a pass that has
\* started eventually ends with its tally printed.
C17_Termination ==
    /\ PassEnds
    /\ \A c \in AllCodes : Pending(c) ~> Finished(c)

\* The endpoint each line of the proxy files names: 1:8 however it is
\* surrounded by white space, 2:8, and none for a line of white space.
EndpointOfLine(line) ==
    CASE line \in {ProxyA, ProxyASpaced, ProxyAFeed, ProxyAOgham} -> <<"1",":","8">>
      [] line = ProxyB -> <<"2",":","8">>
      [] line \in {LineBlank, LineFeedBlank, LineOghamBlank} -> <<>>

\* The endpoints of proxies.txt.
Endpoints == {EndpointOfLine(proxies_txt[i]) : i \in 1..Len(proxies_txt)} \ {<<>>}

\* The first line of proxies.txt that names endpoint e.
FirstProxyLine(e) ==
    CHOOSE i \in 1..Len(proxies_txt) :
        /\ EndpointOfLine(proxies_txt[i]) = e
        /\ \A k \in 1..(i - 1) : EndpointOfLine(proxies_txt[k]) # e

\* C18: the pool never holds an endpoint twice, and once loaded for a
\* cycle it holds the endpoints of proxies.txt in first-seen order; a
\* lookup goes through a proxy exactly when config.use_proxies is set and
\* the pool is not empty, and that proxy is an element of the pool.
C18_ProxyRouting ==
    /\ [](/\ \A i, j \in 1..Len(deduped_proxies) :
                i # j => deduped_proxies[i] # deduped_proxies[j]
          /\ mainpc # "start" =>
                /\ {deduped_proxies[i] : i \in 1..Len(deduped_proxies)} = Endpoints
                /\ \A i, j \in 1..Len(deduped_proxies) :
                      i < j => FirstProxyLine(deduped_proxies[i])
                                  < FirstProxyLine(deduped_proxies[j]))
    /\ [][\A w \in Workers :
            (Steps(w) /\ pc[w] = "send_request") =>
               /\ lookups'[cur[w]] = lookups[cur[w]] + 1
               /\ IF config.use_proxies /\ deduped_proxies # <<>>
                  THEN /\ proxied'[cur[w]] # None
                       /\ \E i \in 1..Len(deduped_proxies) :
                             proxied'[cur[w]] = deduped_proxies[i]
                       /\ proxied'[cur[w]] \in Endpoints
                  ELSE proxied'[cur[w]] = None]_vars

\* In the second cycle over the proxies.txt of five lines, where 1:8 is
\* written three times with different white space around it, the pool
\* holds its two endpoints and the two lookups went through different
\* proxies.
C18_Witness ==
    /\ config.use_proxies /\ Len(tallies) = 2
    /\ Len(proxies_txt) = 5 /\ deduped_proxies = << <<"1",":","8">>, <<"2",":","8">> >>
    /\ \E c, d \in AllCodes :
          /\ lookups[c] = 2 /\ lookups[d] = 2
          /\ proxied[c] = deduped_proxies[1] /\ proxied[d] = deduped_proxies[2]

\* C20: line k of valid.txt and line k of valid_ids.txt come from the
\* same hit candidate: the code and the guild identifier handle_result
\* was called with, whenever both lines are written.
C20_ValidFilesAligned ==
    \A k \in 1..Len(valid_txt) :
        k <= Len(valid_ids_txt) => <<valid_txt[k], valid_ids_txt[k]>> \in handled

====
